---------------------------- MODULE Spec2Model ----------------------------
(***************************************************************************)
(* Model of the Spotify integration layer of the downloader:               *)
(*   - the interactive PKCE authentication attempt                         *)
(*     (menus/downloads_menu.py, _spotify_authenticate),                   *)
(*   - the HTTP client's retry loop and pagination                         *)
(*     (spotify_api/client.py, SpotifyClient.request_json / _paginate),    *)
(*   - the incremental CSV sync engine (managers/sync_manager.py with      *)
(*     utils/loaders.py).                                                  *)
(* Each component has its own specification (SpecAuth, SpecClient,         *)
(* SpecPaginate, SpecSync) over its own variables; the variables of the    *)
(* other components stay at their initial values. SpecRace runs            *)
(* sync_exportify_folder in two processes, step by step, on the files of   *)
(* the sync engine.                                                        *)
(***************************************************************************)
EXTENDS Integers, Sequences, FiniteSets, TLC

VARIABLES
    \* ---- authentication attempt (_spotify_authenticate) ----
    aPc,            \* position of the main flow
    attemptNo,      \* number of attempts started so far
    csrf,           \* flow["state"] of the current attempt
    listener,       \* loopback HTTPServer of this attempt: none / serving / stopped
    shutdownPending,\* the handler has started the server.shutdown thread
    stale,          \* a listener of an earlier attempt still holds the port
    full_url,       \* callback_result["full_url"]
    cbError,        \* callback_result["error"] is set
    handled,        \* requests the listener of this attempt has handled
    elapsed,        \* ticks waited in the redirect wait loop
    pasted,         \* the text that reaches the parsing step
    exchangeCalls,  \* calls of exchange_code_for_token in this attempt
    compared,       \* a received state was compared equal to csrf in this attempt
    outcome,        \* how the attempt ended
    tokenStore,     \* the persisted token record (TokenManager)
    \* ---- one request_json call of SpotifyClient ----
    cPc,            \* idle / loop / returned / raised
    attempt,        \* the local attempt counter
    max_retries,    \* config spotify_max_retries
    auto_refresh,   \* config spotify_auto_refresh
    retry_429,      \* parameter retry_429
    retry_5xx,      \* parameter retry_5xx
    retry_401_refresh, \* parameter and local flag retry_401_refresh
    clientToken,    \* self._token
    cError,         \* what the call raised: kind none / token / network / notjson / http
    cLog,           \* what the call did so far, in order
    cFailure,       \* the body of the response the call failed on and the message raised
    retry_jitter,   \* config spotify_retry_jitter, in ticks
    cSlept,         \* the sleep made in the last iteration of the loop, if it made one
    \* ---- one _paginate call of SpotifyClient ----
    pPc,            \* idle / loop / done / raised
    pN,             \* number of items the endpoint holds (item i is the i-th in provider order)
    pBad,           \* the items that are not JSON objects
    pLimit,         \* local limit
    pStart,         \* the caller's offset
    pOffset,        \* local offset
    pOut,           \* local out
    pReqs,          \* the offsets requested so far, in order
    pFull,          \* every page so far was full and reported total = pN
    \* ---- the CSV sync engine (sync_manager.py) ----
    dirExists,      \* the exportify directory exists
    files,          \* filename -> index of its content in Contents, 0: no such file
    cfg,            \* config: sync_write_tracks_json and the kind of tracks_file
    ssFile,         \* data/sync_state.json: status, synced_files, last_sync
    catFile,        \* tracks_file: status and the tracks it holds
    clock,          \* the time (datetime.now), one tick per sync run
    edits,          \* sync runs and changes from outside so far
    sinceRun,       \* none / clean (nothing happened since the last run returned) / dirty
    clearedSince,   \* clear_sync_state was called since the last run
    lastRun,        \* the last run of sync_exportify_folder: what it saw and returned
    \* ---- two processes running sync_exportify_folder on the same files ----
    runs,           \* process -> position and local variables of its run
    started,        \* runs started so far
    overlapped,     \* a run was started while another run was under way
    ingested,       \* the identity keys of the files the finished runs processed
    recorded        \* the filenames the finished runs recorded as synced

authVars == <<aPc, attemptNo, csrf, listener, shutdownPending, stale, full_url,
              cbError, handled, elapsed, pasted, exchangeCalls, compared, outcome>>

clientVars == <<cPc, attempt, max_retries, auto_refresh, retry_429, retry_5xx,
                retry_401_refresh, clientToken, cError, cLog, cFailure, retry_jitter,
                cSlept>>

pagVars == <<pPc, pN, pBad, pLimit, pStart, pOffset, pOut, pReqs, pFull>>

syncVars == <<dirExists, files, cfg, ssFile, catFile, clock, edits, sinceRun,
              clearedSince, lastRun>>

raceVars == <<runs, started, overlapped, ingested, recorded>>

vars == <<authVars, tokenStore, clientVars, pagVars, syncVars, raceVars>>

\* the variables an action of one component leaves alone
notAuth == <<clientVars, pagVars, syncVars, raceVars>>

notClient == <<authVars, pagVars, syncVars, raceVars>>

notPag == <<authVars, tokenStore, clientVars, syncVars, raceVars>>

notSync == <<authVars, tokenStore, clientVars, pagVars, raceVars>>

notRace == <<authVars, tokenStore, clientVars, pagVars>>

NoUrl == [kind |-> "none"]

NoToken == [kind |-> "none"]

(***************************************************************************)
(*                       AUTHENTICATION ATTEMPT                            *)
(***************************************************************************)

\* bounds of the authentication model
MaxAttempts == 2
WaitTicks == 2
MaxHandled == 2

StateVals == {"s1", "s2"}
CodeVals == {"c1", "c2"}
ErrorVals == {"access_denied"}
GoodCode == "c1"

\* A redirect URL is its query string: a sequence of <<key, value>> pairs.
Param(k, v) == IF v = "" THEN <<>> ELSE << <<k, v>> >>

MkUrl(code, st, err) ==
    [kind |-> "url", query |-> Param("code", code) \o Param("state", st) \o Param("error", err)]

RawCode(code) == [kind |-> "raw", text |-> code]

EmptyPaste == [kind |-> "empty"]

Urls == { MkUrl(c, s, e) : c \in CodeVals \cup {""}, s \in StateVals \cup {""},
                           e \in ErrorVals \cup {""} }

PasteInputs == Urls \cup { RawCode(c) : c \in CodeVals } \cup {EmptyPaste}

RECURSIVE Lookup(_, _)
Lookup(q, k) ==
    IF q = <<>> THEN ""
    ELSE IF Head(q)[1] = k THEN Head(q)[2]
    ELSE Lookup(Tail(q), k)

\* extract_code_from_redirect_url: the code, state and error query parameters
extract_code_from_redirect_url(url) ==
    [code  |-> Lookup(url.query, "code"),
     state |-> Lookup(url.query, "state"),
     error |-> Lookup(url.query, "error")]

\* the state value a pasted text carries ("" when it carries none)
CarriedState(p) == IF p.kind = "url" THEN Lookup(p.query, "state") ELSE ""

\* lines 253-256 with the state check left out
StateMismatchNever(parsed_state, st) == FALSE

\* line 253: if parsed_state and parsed_state != state
StateMismatch(parsed_state, st) == parsed_state # "" /\ parsed_state # st

\* lines 240-242 with the error test left out
HasErrorNever(parsed) == FALSE

\* line 240: if parsed.get("error")
HasError(parsed) == parsed.error # ""

\* lines 231-256: what the flow decides about the pasted text; "exchange"
\* means line 258 is reached with the returned code
Validate(p, st) ==
    IF p.kind = "empty" THEN [verdict |-> "cancel", code |-> "", parsed_state |-> ""]
    ELSE IF p.kind = "url" THEN
        LET parsed == extract_code_from_redirect_url(p) IN
        IF HasError(parsed) THEN [verdict |-> "error", code |-> "", parsed_state |-> ""]
        ELSE IF parsed.code = "" THEN
            [verdict |-> "nocode", code |-> "", parsed_state |-> parsed.state]
        ELSE IF StateMismatch(parsed.state, st) THEN
            [verdict |-> "mismatch", code |-> parsed.code, parsed_state |-> parsed.state]
        ELSE [verdict |-> "exchange", code |-> parsed.code, parsed_state |-> parsed.state]
    ELSE [verdict |-> "exchange", code |-> p.text, parsed_state |-> ""]

InitAuth ==
    /\ aPc = "idle"
    /\ attemptNo = 0
    /\ csrf = ""
    /\ listener = "none"
    /\ shutdownPending = FALSE
    /\ stale = FALSE
    /\ full_url = NoUrl
    /\ cbError = FALSE
    /\ handled = 0
    /\ elapsed = 0
    /\ pasted = NoUrl
    /\ exchangeCalls = 0
    /\ compared = FALSE
    /\ outcome = "none"

\* lines 83-201: credentials check, begin_oauth_flow, start of the listener.
\* A listener left serving by the previous attempt still holds the port.
AuthBegin ==
    /\ aPc \in {"idle", "done"}
    /\ attemptNo < MaxAttempts
    /\ attemptNo' = attemptNo + 1
    /\ stale' = (stale \/ listener = "serving")
    /\ \E credsOk \in BOOLEAN, st \in StateVals, can_listen \in BOOLEAN, bindOk \in BOOLEAN :
         IF ~credsOk
         THEN /\ aPc' = "done"
              /\ outcome' = "nocreds"
              /\ csrf' = ""
              /\ listener' = "none"
         ELSE /\ aPc' = "confirm"
              /\ outcome' = "none"
              /\ csrf' = st
              /\ listener' = IF can_listen /\ bindOk /\ ~stale' THEN "serving" ELSE "none"
    /\ shutdownPending' = FALSE
    /\ full_url' = NoUrl
    /\ cbError' = FALSE
    /\ handled' = 0
    /\ elapsed' = 0
    /\ pasted' = NoUrl
    /\ exchangeCalls' = 0
    /\ compared' = FALSE
    /\ UNCHANGED tokenStore
    /\ UNCHANGED notAuth

\* lines 203-213: the browser question; then the wait loop when server is not None
AuthConfirm ==
    /\ aPc = "confirm"
    /\ aPc' = IF listener # "none" THEN "wait" ELSE "prompt"
    /\ UNCHANGED <<attemptNo, csrf, listener, shutdownPending, stale, full_url, cbError,
                   handled, elapsed, pasted, exchangeCalls, compared, outcome, tokenStore>>
    /\ UNCHANGED notAuth

\* lines 144-179: do_GET of the listener, for a request on the expected path
\* or on another one; the finally block starts the shutdown thread
ListenerRequest ==
    /\ listener = "serving"
    /\ handled < MaxHandled
    /\ \E pathOk \in BOOLEAN, u \in Urls :
         full_url' = IF pathOk THEN u ELSE full_url
    /\ handled' = handled + 1
    /\ shutdownPending' = TRUE
    /\ UNCHANGED <<aPc, attemptNo, csrf, listener, stale, cbError, elapsed, pasted,
                   exchangeCalls, compared, outcome, tokenStore>>
    /\ UNCHANGED notAuth

\* line 177: server.shutdown, run on its own thread, takes effect
ListenerShutdown ==
    /\ listener = "serving"
    /\ shutdownPending
    /\ listener' = "stopped"
    /\ shutdownPending' = FALSE
    /\ UNCHANGED <<aPc, attemptNo, csrf, stale, full_url, cbError, handled, elapsed, pasted,
                   exchangeCalls, compared, outcome, tokenStore>>
    /\ UNCHANGED notAuth

\* lines 188-192: serve_forever raises
ListenerFail ==
    /\ listener = "serving"
    /\ listener' = "stopped"
    /\ cbError' = TRUE
    /\ shutdownPending' = FALSE
    /\ UNCHANGED <<aPc, attemptNo, csrf, stale, full_url, handled, elapsed, pasted,
                   exchangeCalls, compared, outcome, tokenStore>>
    /\ UNCHANGED notAuth

\* the wait that ends the attempt when no redirect was captured
AfterWaitAbort == "done"

\* lines 222-229: with no redirect captured the flow goes on to the manual
\* paste
AfterWait == "prompt"

\* lines 214-220: one iteration of the wait loop
AuthWaitPoll ==
    /\ aPc = "wait"
    /\ elapsed < WaitTicks
    /\ IF full_url # NoUrl
       THEN /\ pasted' = full_url
            /\ aPc' = "parse"
            /\ UNCHANGED elapsed
       ELSE IF cbError
       THEN /\ aPc' = AfterWait
            /\ UNCHANGED <<pasted, elapsed>>
       ELSE /\ elapsed' = elapsed + 1
            /\ UNCHANGED <<aPc, pasted>>
    /\ UNCHANGED <<attemptNo, csrf, listener, shutdownPending, stale, full_url, cbError,
                   handled, exchangeCalls, compared, outcome, tokenStore>>
    /\ UNCHANGED notAuth

\* line 214: the loop condition fails after 180 seconds
AuthWaitTimeout ==
    /\ aPc = "wait"
    /\ elapsed >= WaitTicks
    /\ aPc' = AfterWait
    /\ UNCHANGED <<attemptNo, csrf, listener, shutdownPending, stale, full_url, cbError,
                   handled, elapsed, pasted, exchangeCalls, compared, outcome, tokenStore>>
    /\ UNCHANGED notAuth

\* lines 226-229: the manual paste of a redirect URL or of a raw code
AuthPrompt ==
    /\ aPc = "prompt"
    /\ \E p \in PasteInputs : pasted' = p
    /\ aPc' = "parse"
    /\ UNCHANGED <<attemptNo, csrf, listener, shutdownPending, stale, full_url, cbError,
                   handled, elapsed, exchangeCalls, compared, outcome, tokenStore>>
    /\ UNCHANGED notAuth

\* lines 258-262 with a failed exchange sent again
AfterExchangeRetry(ok) == IF ok THEN "done" ELSE "parse"

\* lines 258-262: where the attempt stands after exchange_code_for_token has
\* returned (ok) or raised: the except clause logs the failure and the
\* function ends
AfterExchange(ok) == "done"

\* lines 231-262: parsing, the state check and the token exchange
AuthFinish ==
    /\ aPc = "parse"
    /\ LET v == Validate(pasted, csrf) IN
         /\ compared' = (v.verdict \in {"exchange", "mismatch"}
                           /\ v.parsed_state # "" /\ v.parsed_state = csrf)
         /\ IF v.verdict = "exchange"
            THEN /\ exchangeCalls' = exchangeCalls + 1
                 /\ \E netOk \in BOOLEAN :
                      IF netOk /\ v.code = GoodCode
                      THEN /\ aPc' = AfterExchange(TRUE)
                           /\ outcome' = "success"
                           /\ tokenStore' = [kind |-> "token", access |-> attemptNo, hasRefresh |-> TRUE,
                                             expired |-> FALSE]
                      ELSE /\ aPc' = AfterExchange(FALSE)
                           /\ outcome' = "exchange_failed"
                           /\ UNCHANGED tokenStore
            ELSE /\ aPc' = "done"
                 /\ outcome' = v.verdict
                 /\ UNCHANGED <<exchangeCalls, tokenStore>>
    /\ UNCHANGED <<attemptNo, csrf, listener, shutdownPending, stale, full_url, cbError,
                   handled, elapsed, pasted>>
    /\ UNCHANGED notAuth

NextAuth ==
    \/ AuthBegin
    \/ AuthConfirm
    \/ ListenerRequest
    \/ ListenerShutdown
    \/ ListenerFail
    \/ AuthWaitPoll
    \/ AuthWaitTimeout
    \/ AuthPrompt
    \/ AuthFinish


(***************************************************************************)
(*                    SpotifyClient.request_json                           *)
(***************************************************************************)

\* bounds of the client model
MaxRetriesCfg == 2

\* the responses one attempt can meet: a status (with the Retry-After header
\* of a 429 and the kind of a 200 body) or a network failure
RetryAfterVals == {"absent", "bad", "0", "3"}

\* A response body: its text (raw, "" when empty) and what json.loads makes
\* of it: kind "dict", "list" or "invalid" (loads raises), and for a dict its
\* "error" member: kind "dict" (with its message, "" when absent or empty),
\* "str" or "none".
Body(raw, kind, ekind, message) ==
    [raw |-> raw, kind |-> kind, error |-> [kind |-> ekind, message |-> message]]

BodyJson == Body("{\"items\": []}", "dict", "none", "")

BodyEmpty == Body("", "invalid", "none", "")

BodyText == Body("<html>Bad Gateway</html>", "invalid", "none", "")

BodyMessage == Body("{\"error\": {\"status\": 400, \"message\": \"m\"}}", "dict", "dict", "m")

BodyErrorString == Body("{\"error\": \"invalid_request\"}", "dict", "str", "")

BodyNoMessage == Body("{\"error\": {\"status\": 400}}", "dict", "dict", "")

\* the responses of the provider; status 0 stands for a network failure
Responses ==
    { [status |-> 200, body |-> b, retry_after |-> "absent"] : b \in {BodyJson, BodyEmpty, BodyText} }
    \cup { [status |-> st, body |-> BodyMessage, retry_after |-> "absent"] : st \in {401, 403} }
    \cup { [status |-> 404, body |-> b, retry_after |-> "absent"] :
               b \in {BodyMessage, BodyErrorString, BodyNoMessage, BodyText, BodyEmpty} }
    \cup { [status |-> 500, body |-> b, retry_after |-> "absent"] : b \in {BodyMessage, BodyText} }
    \cup { [status |-> 429, body |-> BodyMessage, retry_after |-> ra] : ra \in RetryAfterVals }
    \cup { [status |-> 0, body |-> BodyEmpty, retry_after |-> "absent"] }

\* lines 198-201: json.loads(body) raises on a body that is not empty
NotJson(body) == body.raw # "" /\ body.kind = "invalid"

\* the message extraction left out
DetailRaw(body) == body.raw

\* lines 179-185: the detail of the raised error, the provider's
\* error.message when the body has one and the body otherwise
Detail(body) ==
    IF body.raw # "" /\ body.kind = "dict" /\ body.error.kind = "dict"
       /\ body.error.message # ""
    THEN body.error.message
    ELSE body.raw

NoFailure == [body |-> BodyEmpty, detail |-> ""]

Token(gen, hasRefresh, expired) ==
    [kind |-> "token", access |-> gen, hasRefresh |-> hasRefresh, expired |-> expired]

\* TokenManager.is_expired: the record's expiry instant has passed
is_expired(tok) == tok.expired

\* SpotifyPKCEAuth.refresh_access_token: the outcomes of one refresh, a new
\* token record or a failure (NoToken stands for the raised exception)
RefreshOutcomes(tok) ==
    {NoToken} \cup
    (IF tok = NoToken THEN {}
     ELSE { Token(3 - tok.access, tok.hasRefresh, x) : x \in BOOLEAN })

Event(e, v) == [e |-> e, v |-> v]

Err(kind, status) == [kind |-> kind, status |-> status]

NoError == Err("none", 0)

\* get_token handing out the expired token when auto-refresh is disabled
get_token_lenient(tok, store, ref) ==
    LET t == IF tok = NoToken THEN store ELSE tok IN
    IF t = NoToken THEN [ok |-> FALSE, token |-> t, refreshed |-> FALSE, tried |-> FALSE]
    ELSE IF ~is_expired(t) THEN [ok |-> TRUE, token |-> t, refreshed |-> FALSE, tried |-> FALSE]
    ELSE IF ~auto_refresh THEN [ok |-> TRUE, token |-> t, refreshed |-> FALSE, tried |-> FALSE]
    ELSE IF ~t.hasRefresh THEN [ok |-> FALSE, token |-> t, refreshed |-> FALSE, tried |-> FALSE]
    ELSE IF ref = NoToken THEN [ok |-> FALSE, token |-> t, refreshed |-> FALSE, tried |-> TRUE]
    ELSE [ok |-> TRUE, token |-> ref, refreshed |-> TRUE, tried |-> TRUE]

\* lines 39-58: get_token on cached token tok, persisted record store and the
\* refresh outcome ref; ok = FALSE stands for the raised RuntimeError
get_token(tok, store, ref) ==
    LET t == IF tok = NoToken THEN store ELSE tok IN
    IF t = NoToken THEN [ok |-> FALSE, token |-> t, refreshed |-> FALSE, tried |-> FALSE]
    ELSE IF ~is_expired(t) THEN [ok |-> TRUE, token |-> t, refreshed |-> FALSE, tried |-> FALSE]
    ELSE IF ~auto_refresh THEN [ok |-> FALSE, token |-> t, refreshed |-> FALSE, tried |-> FALSE]
    ELSE IF ~t.hasRefresh THEN [ok |-> FALSE, token |-> t, refreshed |-> FALSE, tried |-> FALSE]
    ELSE IF ref = NoToken THEN [ok |-> FALSE, token |-> t, refreshed |-> FALSE, tried |-> TRUE]
    ELSE [ok |-> TRUE, token |-> ref, refreshed |-> TRUE, tried |-> TRUE]

\* lines 100-106: the token put in the Authorization header of a request:
\* 1 a token get_token has just refreshed, 0 a cached token that is not
\* expired, 2 a cached token that is expired
AuthHeader(g) == IF g.refreshed THEN 1 ELSE IF is_expired(g.token) THEN 2 ELSE 0

\* the refresh outcomes get_token can meet: it calls refresh_access_token
\* (line 56) only on an expired token with a refresh token and auto-refresh on
RefreshInputs(tok, store) ==
    LET t == IF tok = NoToken THEN store ELSE tok IN
    IF t # NoToken /\ is_expired(t) /\ auto_refresh /\ t.hasRefresh
    THEN RefreshOutcomes(t) ELSE {NoToken}

\* a failed refresh that drops the cached token's refresh token
TokenAfterFailedRefreshDropped(tok) == [tok EXCEPT !.hasRefresh = FALSE]

\* lines 152-160: self._token is assigned only after refresh_access_token
\* has returned, so a refresh that raises leaves it as it was
TokenAfterFailedRefresh(tok) == tok

\* the retry guard with one attempt too many
MayRetryOneMore(att, maxr) == att <= maxr + 1

\* lines 150, 163, 173, 189: attempt <= max_retries
MayRetry(att, maxr) == att <= maxr

\* the flag left set after a refresh
FlagAfterRefreshKept == TRUE

\* line 156: retry_401_refresh = False
FlagAfterRefresh == FALSE

RECURSIVE Pow2(_)
Pow2(n) == IF n <= 0 THEN 1 ELSE 2 * Pow2(n - 1)

Min(a, b) == IF a < b THEN a ELSE b

Max(a, b) == IF a > b THEN a ELSE b

\* line 89: config spotify_backoff_base, in seconds (default 1.0); a base
\* of 16 lets the delays meet the caps within the retry bound
backoff_base == 16

\* the delay of a 429 with the Retry-After header not read
RetryAfterDelayDefault(ra) == 1

\* lines 164-169: the seconds slept on a 429
RetryAfterDelay(ra) ==
    Max(1, CASE ra = "absent" -> 1
             [] ra = "bad" -> 1
             [] ra = "0" -> 0
             [] ra = "3" -> 3)

\* the exponential backoff without its cap
BackoffUncapped(att, cap) == backoff_base * Pow2(Max(0, att - 1))

\* lines 174-175 and 190-191: the exponential backoff, capped
Backoff(att, cap) == Min(cap, backoff_base * Pow2(Max(0, att - 1)))

\* time is counted in ticks of a quarter of a second
TicksPerSecond == 4

\* the values of config spotify_retry_jitter: -1 s and 1 s
JitterVals == {-TicksPerSecond, TicksPerSecond}

\* line 68: time.time() % 1.0, in quarters: 0 or 0.75
Fracs == {0, 3}

\* lines 64-68: _sleep_with_jitter(seconds) with time.time() % 1.0 = frac / 4;
\* the ticks given to time.sleep
sleep_with_jitter(seconds, frac) ==
    Max(0, seconds) * TicksPerSecond + (retry_jitter * frac) \div 4

NoSleep == [cause |-> 0, header |-> "absent", attempt |-> 0, seconds |-> 0, slept |-> 0]

InitClient ==
    /\ cPc = "idle"
    /\ attempt = 0
    /\ max_retries \in -1..MaxRetriesCfg
    /\ auto_refresh \in BOOLEAN
    /\ retry_429 = TRUE
    /\ retry_5xx = TRUE
    /\ retry_401_refresh = TRUE
    /\ clientToken = NoToken
    /\ tokenStore \in {NoToken} \cup { Token(1, r, x) : r \in BOOLEAN, x \in BOOLEAN }
    /\ cError = NoError
    /\ cLog = <<>>
    /\ cFailure = NoFailure
    /\ retry_jitter \in JitterVals
    /\ cSlept = NoSleep

\* the client variables while another component is exercised
ParkedClient ==
    /\ cPc = "idle"
    /\ attempt = 0
    /\ max_retries = 0
    /\ auto_refresh = TRUE
    /\ retry_429 = TRUE
    /\ retry_5xx = TRUE
    /\ retry_401_refresh = TRUE
    /\ clientToken = NoToken
    /\ cError = NoError
    /\ cLog = <<>>
    /\ cFailure = NoFailure
    /\ retry_jitter = 0
    /\ cSlept = NoSleep

\* lines 70-91: a call of request_json starts
ReqStart ==
    /\ cPc \in {"idle", "returned", "raised"}
    /\ cPc' = "loop"
    /\ attempt' = 0
    /\ \E r4 \in BOOLEAN, r5 \in BOOLEAN, r1 \in BOOLEAN :
         /\ retry_429' = r4
         /\ retry_5xx' = r5
         /\ retry_401_refresh' = r1
    /\ cError' = NoError
    /\ cLog' = <<>>
    /\ cFailure' = NoFailure
    /\ cSlept' = NoSleep
    /\ UNCHANGED <<max_retries, auto_refresh, clientToken, tokenStore, retry_jitter>>
    /\ UNCHANGED notClient

\* the cached token's expiry instant passes
TokenExpires ==
    /\ clientToken # NoToken
    /\ ~clientToken.expired
    /\ clientToken' = [clientToken EXCEPT !.expired = TRUE]
    /\ tokenStore' = IF tokenStore # NoToken /\ tokenStore.access = clientToken.access
                     THEN [tokenStore EXCEPT !.expired = TRUE] ELSE tokenStore
    /\ UNCHANGED <<cPc, attempt, max_retries, auto_refresh, retry_429, retry_5xx,
                   retry_401_refresh, cError, cLog, cFailure, retry_jitter, cSlept>>
    /\ UNCHANGED notClient

\* lines 93-94 when get_token raises: the call fails before any request
ReqTokenFails ==
    /\ cPc = "loop"
    /\ \E ref \in RefreshInputs(clientToken, tokenStore) :
         LET g == get_token(clientToken, tokenStore, ref) IN
         /\ ~g.ok
         /\ attempt' = attempt + 1
         /\ clientToken' = g.token
         /\ cLog' = cLog \o (IF g.tried THEN <<Event("refreshGT", 0)>> ELSE <<>>)
         /\ cPc' = "raised"
         /\ cError' = Err("token", 0)
    /\ cSlept' = NoSleep
    /\ UNCHANGED <<max_retries, auto_refresh, retry_429, retry_5xx, retry_401_refresh,
                   tokenStore, cFailure, retry_jitter>>
    /\ UNCHANGED notClient

\* lines 93-201: one iteration of the loop in which a request is sent and its
\* response resp is handled; ref is the outcome of the refresh in get_token,
\* ref401 the outcome of the refresh tried on a 401
ReqAttempt ==
    /\ cPc = "loop"
    /\ \E resp \in Responses, ref \in RefreshInputs(clientToken, tokenStore) :
         LET g == get_token(clientToken, tokenStore, ref)
             att == attempt + 1
             sent == cLog \o (IF g.tried THEN <<Event("refreshGT", 1)>> ELSE <<>>)
                          \o <<Event("send", att), Event("auth", AuthHeader(g)),
                               Event("resp", resp.status)>>
             tries401 == /\ resp.status = 401 /\ retry_401_refresh /\ MayRetry(att, max_retries)
                         /\ g.token.hasRefresh /\ auto_refresh
         IN
         /\ g.ok
         /\ attempt' = att
         /\ \E ref401 \in (IF tries401 THEN RefreshOutcomes(g.token) ELSE {NoToken}) :
              IF resp.status = 200 THEN
                  /\ cPc' = IF NotJson(resp.body) THEN "raised" ELSE "returned"
                  /\ cError' = IF NotJson(resp.body) THEN Err("notjson", 200) ELSE NoError
                  /\ cLog' = sent
                  /\ clientToken' = g.token
                  /\ UNCHANGED retry_401_refresh
              ELSE IF tries401 /\ ref401 # NoToken THEN
                  /\ cPc' = "loop"
                  /\ cError' = NoError
                  /\ cLog' = sent \o <<Event("refresh401", 1)>>
                  /\ clientToken' = ref401
                  /\ retry_401_refresh' = FlagAfterRefresh
              ELSE
                  LET log1 == sent \o (IF tries401 THEN <<Event("refresh401", 0)>> ELSE <<>>) IN
                  /\ clientToken' = IF tries401 THEN TokenAfterFailedRefresh(g.token)
                                    ELSE g.token
                  /\ UNCHANGED retry_401_refresh
                  /\ IF resp.status = 429 /\ retry_429 /\ MayRetry(att, max_retries) THEN
                         /\ cPc' = "loop"
                         /\ cError' = NoError
                         /\ cLog' = log1 \o <<Event("sleep", RetryAfterDelay(resp.retry_after))>>
                     ELSE IF resp.status >= 500 /\ retry_5xx /\ MayRetry(att, max_retries) THEN
                         /\ cPc' = "loop"
                         /\ cError' = NoError
                         /\ cLog' = log1 \o <<Event("sleep", Backoff(att, 60))>>
                     ELSE IF resp.status = 0 /\ MayRetry(att, max_retries) THEN
                         /\ cPc' = "loop"
                         /\ cError' = NoError
                         /\ cLog' = log1 \o <<Event("sleep", Backoff(att, 30))>>
                     ELSE
                         /\ cPc' = "raised"
                         /\ cError' = IF resp.status = 0 THEN Err("network", 0)
                                      ELSE Err("http", resp.status)
                         /\ cLog' = log1
         /\ cFailure' = IF cPc' = "raised" /\ cError'.kind = "http"
                         THEN [body |-> resp.body, detail |-> Detail(resp.body)]
                         ELSE NoFailure
         /\ IF cLog'[Len(cLog')].e = "sleep"
            THEN \E frac \in Fracs :
                    cSlept' = [cause |-> resp.status, header |-> resp.retry_after,
                               attempt |-> att, seconds |-> cLog'[Len(cLog')].v,
                               slept |-> sleep_with_jitter(cLog'[Len(cLog')].v, frac)]
            ELSE cSlept' = NoSleep
         /\ tokenStore' = IF clientToken' # g.token THEN clientToken'
                          ELSE IF g.refreshed THEN g.token ELSE tokenStore
    /\ UNCHANGED <<max_retries, auto_refresh, retry_429, retry_5xx, retry_jitter>>
    /\ UNCHANGED notClient

NextClient ==
    \/ ReqStart
    \/ TokenExpires
    \/ ReqTokenFails
    \/ ReqAttempt


(***************************************************************************)
(*                      SpotifyClient._paginate                            *)
(***************************************************************************)

\* bounds of the pagination model
MaxItems == 5
MaxLimit == 3
MaxStart == 2

DefaultLimit == 50

\* line 207: int((params or {}).get("limit") or 50)
EffLimit(l) == IF l = 0 THEN DefaultLimit ELSE l

\* line 208: int((params or {}).get("offset") or 0)
EffOffset(o) == o

\* the items the endpoint holds from position off + 1 on, at most k of them
ServerPage(n, off, k) ==
    [i \in 1..Max(0, Min(k, n - off)) |-> off + i]

\* the page taken over with its malformed items
ObjectsAll(items, bad) == items

\* line 214: [x for x in items if isinstance(x, dict)]
ObjectsOf(items, bad) == SelectSeq(items, LAMBDA x : x \notin bad)

\* the stop test that looks at the page only, not at the total
PagStopOnEmpty(got, offset, total) == got <= 0

\* the stop test with a strict comparison
PagStopStrict(got, offset, total) == got <= 0 \/ offset > total

\* line 222: if got <= 0 or offset >= int(total): break
PagStop(got, offset, total) == got <= 0 \/ offset >= total

InitPag ==
    /\ pPc = "idle"
    /\ pN = 0
    /\ pBad = {}
    /\ pLimit = 0
    /\ pStart = 0
    /\ pOffset = 0
    /\ pOut = <<>>
    /\ pReqs = <<>>
    /\ pFull = TRUE

\* lines 203-208: a call of _paginate on an endpoint that holds n items
PagStart ==
    /\ pPc = "idle"
    /\ \E n \in 0..MaxItems, l \in 0..MaxLimit, o \in 0..MaxStart :
         /\ pN' = n
         /\ \E b \in SUBSET (1..n) : pBad' = b
         /\ pLimit' = EffLimit(l)
         /\ pStart' = EffOffset(o)
         /\ pOffset' = EffOffset(o)
    /\ pPc' = "loop"
    /\ pOut' = <<>>
    /\ pReqs' = <<>>
    /\ pFull' = TRUE
    /\ UNCHANGED notPag

\* lines 211-223: one page is requested and handled; the endpoint serves k
\* items (a full page or a shorter one), with or without the total, or a body
\* whose items field is missing or is no list
PagPage ==
    /\ pPc = "loop"
    /\ \E k \in 0..Min(pLimit, Max(0, pN - pOffset)),
          shape \in {"list", "missing", "notlist"}, hasTotal \in BOOLEAN :
         LET items == IF shape = "list" THEN ServerPage(pN, pOffset, k) ELSE <<>>
             isList == shape # "notlist"
             got == IF isList THEN Len(items) ELSE 0
             full == /\ shape = "list" /\ hasTotal
                     /\ k = Min(pLimit, Max(0, pN - pOffset))
         IN
         /\ shape # "list" => k = 0
         /\ pReqs' = Append(pReqs, pOffset)
         /\ pOut' = IF isList THEN pOut \o ObjectsOf(items, pBad) ELSE pOut
         /\ pFull' = (pFull /\ full)
         /\ IF ~hasTotal
            THEN /\ pPc' = "done"
                 /\ UNCHANGED pOffset
            ELSE /\ pOffset' = pOffset + got
                 /\ pPc' = IF PagStop(got, pOffset + got, pN) THEN "done" ELSE "loop"
    /\ UNCHANGED <<pN, pBad, pLimit, pStart>>
    /\ UNCHANGED notPag

\* line 211: request_json raises, and so does _paginate
PagFail ==
    /\ pPc = "loop"
    /\ pPc' = "raised"
    /\ pReqs' = Append(pReqs, pOffset)
    /\ UNCHANGED <<pN, pBad, pLimit, pStart, pOffset, pOut, pFull>>
    /\ UNCHANGED notPag

\* _paginate has returned or raised; the client is ready for the next call
PagReturn ==
    /\ pPc \in {"done", "raised"}
    /\ pPc' = "idle"
    /\ pN' = 0
    /\ pBad' = {}
    /\ pLimit' = 0
    /\ pStart' = 0
    /\ pOffset' = 0
    /\ pOut' = <<>>
    /\ pReqs' = <<>>
    /\ pFull' = TRUE
    /\ UNCHANGED notPag

NextPag ==
    \/ PagStart
    \/ PagPage
    \/ PagFail
    \/ PagReturn


(***************************************************************************)
(*          CSV sync engine: sync_manager.py and loaders.py                *)
(***************************************************************************)

\* bounds of the sync model
MaxSteps == 4

\* Strings are sequences of characters.
Csv1 == <<"a", ".", "c", "s", "v">>

Csv2 == <<"B", ".", "C", "S", "V">>

Txt1 == <<"n", ".", "t", "x", "t">>

Filenames == {Csv1, Csv2, Txt1}

FoldChar(c) ==
    CASE c = "A" -> "a" [] c = "B" -> "b" [] c = "C" -> "c" [] c = "S" -> "s"
      [] c = "V" -> "v" [] c = "X" -> "x" [] c = "Y" -> "y" [] c = "Z" -> "z"
      [] OTHER -> c

\* str.casefold / str.lower on the characters used here
casefold(str) == [i \in 1..Len(str) |-> FoldChar(str[i])]

EndsWith(str, suffix) ==
    /\ Len(str) >= Len(suffix)
    /\ SubSeq(str, Len(str) - Len(suffix) + 1, Len(str)) = suffix

\* the filter that lets every directory entry through
IsCsvAny(filename) == TRUE

\* line 60: filename.lower().endswith(".csv")
IsCsv(filename) == EndsWith(casefold(filename), <<".", "c", "s", "v">>)

RECURSIVE LStrip(_)
LStrip(str) == IF str # <<>> /\ Head(str) = " " THEN LStrip(Tail(str)) ELSE str

RECURSIVE RStrip(_)
RStrip(str) ==
    IF str # <<>> /\ str[Len(str)] = " " THEN RStrip(SubSeq(str, 1, Len(str) - 1)) ELSE str

\* str.strip
strip(str) == RStrip(LStrip(str))

RECURSIVE SplitAcc(_, _, _)
SplitAcc(str, d, cur) ==
    IF str = <<>> THEN <<cur>>
    ELSE IF Head(str) = d THEN <<cur>> \o SplitAcc(Tail(str), d, <<>>)
    ELSE SplitAcc(Tail(str), d, Append(cur, Head(str)))

\* str.split(delimiter)
split(str, d) == SplitAcc(str, d, <<>>)

RECURSIVE Join(_, _)
\* sep.join(parts)
Join(parts, sep) ==
    IF parts = <<>> THEN <<>>
    ELSE IF Len(parts) = 1 THEN parts[1]
    ELSE parts[1] \o sep \o Join(Tail(parts), sep)

RECURSIVE UniqFold(_, _)
\* lines 22-29: de-dupe by casefolded key, keeping the order
UniqFold(parts, seen) ==
    IF parts = <<>> THEN <<>>
    ELSE IF casefold(Head(parts)) \in seen THEN UniqFold(Tail(parts), seen)
    ELSE <<Head(parts)>> \o UniqFold(Tail(parts), seen \cup {casefold(Head(parts))})

Has(str, c) == \E i \in 1..Len(str) : str[i] = c

\* lines 6-31: _normalize_artists
normalize_artists(raw0) ==
    LET raw == strip(raw0) IN
    IF raw = <<>> THEN <<>>
    ELSE LET delimiter == IF Has(raw, ";") THEN ";" ELSE ","
             stripped == [i \in 1..Len(split(raw, delimiter)) |-> strip(split(raw, delimiter)[i])]
             parts == SelectSeq(stripped, LAMBDA x : x # <<>>)
         IN IF parts = <<>> THEN raw ELSE Join(UniqFold(parts, {}), <<",", " ">>)

Row(artist, track, album) == [artist |-> artist, track |-> track, album |-> album]

\* The contents a CSV file can have. bad: the file cannot be decoded or parsed
\* to its end (the reader raises).
Contents ==
    << [bad |-> FALSE, rows |-> << Row(<<"A">>, <<"X">>, <<>>) >>],
       [bad |-> FALSE, rows |-> << Row(<<"a">>, <<"x">>, <<"L">>),
                                   Row(<<" ", "B", ";", "b">>, <<"Y", " ">>, <<>>),
                                   Row(<<>>, <<"Z">>, <<>>),
                                   Row(<<"B">>, <<"y">>, <<>>),
                                   Row(<<"A", "|", "B">>, <<"Z">>, <<>>),
                                   Row(<<"a">>, <<"b", "|", "z">>, <<>>),
                                   Row(<<"C">>, <<" ">>, <<>>) >>],
       [bad |-> TRUE,  rows |-> << Row(<<"B">>, <<"Z">>, <<>>) >>] >>

NumContents == Len(Contents)

\* lines 14-22: get_file_hash, the MD5 digest of the bytes of content c
get_file_hash(c) == <<"md5", c>>

\* a reader that skips no row
RowsToTracksAll(rows) ==
    [i \in 1..Len(rows) |->
        [artist |-> normalize_artists(strip(rows[i].artist)), album |-> strip(rows[i].album),
         track |-> strip(rows[i].track), uri |-> <<>>]]

RECURSIVE RowsToTracks(_)
\* lines 46-62: the rows that have an artist and a track name
RowsToTracks(rows) ==
    IF rows = <<>> THEN <<>>
    ELSE LET row == Head(rows)
             artist == normalize_artists(strip(row.artist))
             track_name == strip(row.track)
         IN (IF artist = <<>> \/ track_name = <<>> THEN <<>>
             ELSE << [artist |-> artist, album |-> strip(row.album),
                      track |-> track_name, uri |-> <<>>] >>)
            \o RowsToTracks(Tail(rows))

\* lines 34-67: load_exportify_tracks on a file with content c (0: no file)
load_exportify_tracks(c) ==
    IF c = 0 THEN <<>>
    ELSE IF Contents[c].bad THEN <<>>
    ELSE RowsToTracks(Contents[c].rows)

\* what load_exportify_tracks returns for each content
LoadedTracks == [c \in 0..NumContents |-> load_exportify_tracks(c)]

\* the key without case folding
track_id_exact(t) == t.artist \o <<"|">> \o t.track

\* lines 149 and 162: the identity key of a track
track_id(t) == casefold(t.artist) \o <<"|">> \o casefold(t.track)

IdsOf(tracks) == { track_id(tracks[i]) : i \in 1..Len(tracks) }

\* the dedup set started empty although the catalog holds tracks
ExistingIdsNone(existing_tracks) == {}

\* lines 147-150: the identifiers of the tracks loaded from the catalog
ExistingIds(existing_tracks) == IdsOf(existing_tracks)

NoEntry == [hash |-> <<>>, synced_at |-> 0]

EmptyState == [synced_files |-> [f \in Filenames |-> NoEntry], last_sync |-> 0]

\* lines 25-34: load_sync_state
load_sync_state(sf) ==
    IF sf.status = "ok" THEN [synced_files |-> sf.synced_files, last_sync |-> sf.last_sync]
    ELSE EmptyState

\* the change test that misses a modified file
IsChangedNewOnly(entry, current_hash) == entry = NoEntry

\* the change test that reports every file
IsChangedAlways(entry, current_hash) == TRUE

\* line 67: filename not in synced_files or synced_files[filename]["hash"] != current_hash
IsChanged(entry, current_hash) == entry = NoEntry \/ entry.hash # current_hash

\* lines 59-75 for one directory entry
FileInfo(filename, c, synced_files) ==
    [filename |-> filename, content |-> c, hash |-> get_file_hash(c),
     is_new |-> synced_files[filename] = NoEntry]

\* the listing orders os.listdir can give
Listings(names) ==
    { q \in [1..Cardinality(names) -> names] : \A i, j \in 1..Cardinality(names) :
                                                   i # j => q[i] # q[j] }

RECURSIVE DetectIn(_, _, _)
DetectIn(listing, fs, synced_files) ==
    IF listing = <<>> THEN <<>>
    ELSE LET filename == Head(listing)
             rest == DetectIn(Tail(listing), fs, synced_files)
         IN IF ~IsCsv(filename) THEN rest
            ELSE IF IsChanged(synced_files[filename], get_file_hash(fs[filename]))
            THEN <<FileInfo(filename, fs[filename], synced_files)>> \o rest
            ELSE rest

\* lines 44-77: detect_new_files, with the directory listed in order listing
detect_new_files(exists, listing, fs, sf) ==
    IF ~exists THEN <<>>
    ELSE DetectIn(listing, fs, load_sync_state(sf).synced_files)

Present(fs) == { f \in Filenames : fs[f] # 0 }

\* lines 97-102: should_update_tracks_json
should_update_tracks_json(c) == c.sync_write_tracks_json /\ c.tracks_file_is_json

\* the membership test that never skips a track
AlreadyKnownNever(id, existing_ids) == FALSE

\* line 163: if track_id in existing_ids
AlreadyKnown(id, existing_ids) == id \in existing_ids

RECURSIVE MergeTracks(_, _, _)
\* lines 160-177: the loop over the tracks of one file; acc holds
\* existing_ids, existing_tracks and added_count
MergeTracks(csv_tracks, acc, update) ==
    IF csv_tracks = <<>> THEN acc
    ELSE LET track == Head(csv_tracks)
             id == track_id(track)
         IN IF AlreadyKnown(id, acc.existing_ids)
            THEN MergeTracks(Tail(csv_tracks), acc, update)
            ELSE MergeTracks(Tail(csv_tracks),
                     [existing_ids |-> acc.existing_ids \cup {id},
                      existing_tracks |-> IF update THEN Append(acc.existing_tracks, track)
                                          ELSE acc.existing_tracks,
                      added_count |-> acc.added_count + 1],
                     update)

\* a count that leaves the re-ingested files out
CountFileNewOnly(results, is_new) ==
    [results EXCEPT !.new_files = IF is_new THEN @ + 1 ELSE @]

\* lines 188-191: the file is counted as new or as updated
CountFile(results, is_new) ==
    [results EXCEPT !.new_files = IF is_new THEN @ + 1 ELSE @,
                    !.updated_files = IF is_new THEN @ ELSE @ + 1]

RECURSIVE ProcessFiles(_, _, _, _)
\* lines 156-196: the loop over the changed files; run holds existing_ids,
\* existing_tracks, state and results
ProcessFiles(new_files, run, update, now) ==
    IF new_files = <<>> THEN run
    ELSE LET file_info == Head(new_files)
             csv_tracks == LoadedTracks[file_info.content]
             m == MergeTracks(csv_tracks,
                     [existing_ids |-> run.existing_ids,
                      existing_tracks |-> run.existing_tracks, added_count |-> 0], update)
         IN ProcessFiles(Tail(new_files),
                [existing_ids |-> m.existing_ids,
                 existing_tracks |-> m.existing_tracks,
                 state |-> [run.state EXCEPT !.synced_files[file_info.filename] =
                               [hash |-> file_info.hash, synced_at |-> now]],
                 results |-> CountFile([run.results EXCEPT !.new_tracks = @ + m.added_count],
                                       file_info.is_new)],
                update, now)

\* lines 104-110
NewResults ==
    [returned |-> TRUE, new_files |-> 0, updated_files |-> 0, new_tracks |-> 0,
     tracks_file_updated |-> FALSE, errors |-> <<>>]

Raised == [returned |-> FALSE]

NoRun == [ran |-> FALSE]

InitSync ==
    /\ dirExists \in BOOLEAN
    /\ files = [f \in Filenames |-> 0]
    /\ cfg \in [sync_write_tracks_json : BOOLEAN, tracks_file_is_json : {TRUE}]
    /\ ssFile = [status |-> "missing", synced_files |-> EmptyState.synced_files, last_sync |-> 0]
    /\ catFile \in { [status |-> "missing", tracks |-> <<>>],
                     [status |-> "ok", tracks |-> RowsToTracks(Contents[1].rows)] }
    /\ clock = 0
    /\ edits = 0
    /\ sinceRun = "none"
    /\ clearedSince = FALSE
    /\ lastRun = NoRun

\* the sync variables while another component is exercised
ParkedSync ==
    /\ dirExists = FALSE
    /\ files = [f \in Filenames |-> 0]
    /\ cfg = [sync_write_tracks_json |-> TRUE, tracks_file_is_json |-> TRUE]
    /\ ssFile = [status |-> "missing", synced_files |-> EmptyState.synced_files, last_sync |-> 0]
    /\ catFile = [status |-> "missing", tracks |-> <<>>]
    /\ clock = 0
    /\ edits = 0
    /\ sinceRun = "none"
    /\ clearedSince = FALSE
    /\ lastRun = NoRun


Dirty(x) == IF x = "none" THEN "none" ELSE "dirty"

\* what becomes of a write: done, refused (the file is as before), or broken
\* off (the file is left truncated)
WriteOutcomes == {"ok", "fail_unchanged", "fail_truncated"}

\* the contents a file of that name is given
ContentsFor(f) == IF IsCsv(f) THEN 1..NumContents ELSE {1}

\* a run that goes on although no file has changed
EarlyReturnDirOnly(exists, new_files) == ~exists

\* lines 112-122: the run returns before it reads or writes anything
EarlyReturn(exists, new_files) == ~exists \/ new_files = <<>>

\* lines 80-220: one run of sync_exportify_folder. listing is the order of
\* os.listdir, readOk whether tracks_file can be read, catWrite and stateWrite
\* what becomes of the two writes.
Sync ==
    /\ edits < MaxSteps
    /\ edits' = edits + 1
    /\ \E listing \in Listings(Present(files)), readOk \in BOOLEAN,
          catWrite \in WriteOutcomes, stateWrite \in WriteOutcomes :
         LET update == should_update_tracks_json(cfg)
             now == clock + 1
             new_files == detect_new_files(dirExists, listing, files, ssFile)
             early == EarlyReturn(dirExists, new_files)
             existing_tracks == IF update /\ catFile.status = "ok" /\ readOk
                                THEN catFile.tracks ELSE <<>>
             run == ProcessFiles(new_files,
                        [existing_ids |-> ExistingIds(existing_tracks),
                         existing_tracks |-> existing_tracks,
                         state |-> load_sync_state(ssFile),
                         results |-> NewResults],
                        update, now)
             cat1 == IF ~update \/ catWrite = "fail_unchanged" THEN catFile
                     ELSE IF catWrite = "ok" THEN [status |-> "ok", tracks |-> run.existing_tracks]
                     ELSE [status |-> "corrupt", tracks |-> <<>>]
             res1 == IF ~update THEN run.results
                     ELSE IF catWrite = "ok"
                     THEN [run.results EXCEPT !.tracks_file_updated = TRUE]
                     ELSE [run.results EXCEPT !.errors = Append(@, "Failed to save tracks")]
             ss1 == IF stateWrite = "ok"
                    THEN [status |-> "ok", synced_files |-> run.state.synced_files,
                          last_sync |-> now]
                    ELSE IF stateWrite = "fail_unchanged" THEN ssFile
                    ELSE [status |-> "corrupt", synced_files |-> EmptyState.synced_files,
                          last_sync |-> 0]
             result == IF ~dirExists
                       THEN [NewResults EXCEPT !.errors = <<"Directory not found">>]
                       ELSE IF early THEN NewResults
                       ELSE IF stateWrite = "ok" THEN res1 ELSE Raised
         IN
         /\ (catFile.status # "ok" \/ ~update \/ early) => readOk
         /\ (~update \/ early) => catWrite = "ok"
         /\ early => stateWrite = "ok"
         /\ catFile' = IF early THEN catFile ELSE cat1
         /\ ssFile' = IF early THEN ssFile ELSE ss1
         /\ lastRun' = [ran |-> TRUE, quiet |-> sinceRun = "clean",
                        afterClear |-> clearedSince, update |-> update, readOk |-> readOk,
                        detected |-> new_files, preCat |-> catFile, preSs |-> ssFile,
                        result |-> result]
         /\ sinceRun' = IF result.returned THEN "clean" ELSE "dirty"
    /\ clock' = clock + 1
    /\ clearedSince' = FALSE
    /\ UNCHANGED <<dirExists, files, cfg>>
    /\ UNCHANGED notSync

\* a clear that resets last_sync and keeps the per-file entries
ClearedStateKept == [status |-> "ok", synced_files |-> ssFile.synced_files, last_sync |-> 0]

\* line 289: the state clear_sync_state saves
ClearedState == [status |-> "ok", synced_files |-> EmptyState.synced_files, last_sync |-> 0]

\* lines 287-290: clear_sync_state
ClearSyncState ==
    /\ edits < MaxSteps
    /\ edits' = edits + 1
    /\ ssFile' = ClearedState
    /\ clearedSince' = TRUE
    /\ sinceRun' = Dirty(sinceRun)
    /\ UNCHANGED <<dirExists, files, cfg, catFile, clock, lastRun>>
    /\ UNCHANGED notSync

\* a CSV export (or another file) is dropped into the directory, or an
\* existing file gets a new content
PutFile ==
    /\ edits < MaxSteps
    /\ dirExists
    /\ edits' = edits + 1
    /\ \E f \in Filenames, c \in 1..NumContents :
         /\ c \in ContentsFor(f)
         /\ files[f] # c
         /\ files' = [files EXCEPT ![f] = c]
    /\ sinceRun' = Dirty(sinceRun)
    /\ UNCHANGED <<dirExists, cfg, ssFile, catFile, clock, clearedSince, lastRun>>
    /\ UNCHANGED notSync

\* a file is removed from the directory
DeleteFile ==
    /\ edits < MaxSteps
    /\ edits' = edits + 1
    /\ \E f \in Present(files) : files' = [files EXCEPT ![f] = 0]
    /\ sinceRun' = Dirty(sinceRun)
    /\ UNCHANGED <<dirExists, cfg, ssFile, catFile, clock, clearedSince, lastRun>>
    /\ UNCHANGED notSync

\* the exportify directory is created
MakeDir ==
    /\ edits < MaxSteps
    /\ ~dirExists
    /\ edits' = edits + 1
    /\ dirExists' = TRUE
    /\ sinceRun' = Dirty(sinceRun)
    /\ UNCHANGED <<files, cfg, ssFile, catFile, clock, clearedSince, lastRun>>
    /\ UNCHANGED notSync

\* the configuration is edited: sync_write_tracks_json or tracks_file
SetConfig ==
    /\ edits < MaxSteps
    /\ edits' = edits + 1
    /\ \E c \in [sync_write_tracks_json : BOOLEAN, tracks_file_is_json : BOOLEAN] :
         /\ c # cfg
         /\ cfg' = c
    /\ UNCHANGED <<dirExists, files, ssFile, catFile, clock, sinceRun, clearedSince, lastRun>>
    /\ UNCHANGED notSync

NextSync ==
    \/ Sync
    \/ ClearSyncState
    \/ PutFile
    \/ DeleteFile
    \/ MakeDir
    \/ SetConfig

(***************************************************************************)
(*        Two sync runs on the same state files (sync_manager.py)          *)
(***************************************************************************)

\* bound of the two-process model: the runs started in all
MaxRaceRuns == 2

Procs == {1, 2}

RunIdle == [pc |-> "idle"]

\* a catalog read that finds nothing
ReadCatalogEmpty(cat) == <<>>

\* lines 140-145: the tracks read from tracks_file
ReadCatalog(cat) == IF cat.status = "ok" THEN cat.tracks ELSE <<>>

ParkedRace ==
    /\ runs = [p \in Procs |-> RunIdle]
    /\ started = 0
    /\ overlapped = FALSE
    /\ ingested = {}
    /\ recorded = {}

InitRace ==
    /\ ParkedRace
    /\ dirExists = TRUE
    /\ files \in { [f \in Filenames |-> 0], [f \in Filenames |-> IF f = Csv1 THEN 1 ELSE 0] }
    /\ cfg = [sync_write_tracks_json |-> TRUE, tracks_file_is_json |-> TRUE]
    /\ ssFile = [status |-> "missing", synced_files |-> EmptyState.synced_files, last_sync |-> 0]
    /\ catFile \in { [status |-> "missing", tracks |-> <<>>],
                     [status |-> "ok", tracks |-> RowsToTracks(Contents[1].rows)] }
    /\ clock = 0
    /\ edits = 0
    /\ sinceRun = "none"
    /\ clearedSince = FALSE
    /\ lastRun = NoRun

\* lines 112-122: process p starts a run and detects the changed files
RunDetect(p) ==
    /\ runs[p].pc = "idle"
    /\ started < MaxRaceRuns
    /\ started' = started + 1
    /\ overlapped' = (overlapped \/ \E q \in Procs \ {p} : runs[q].pc # "idle")
    /\ \E listing \in Listings(Present(files)) :
         LET new_files == detect_new_files(dirExists, listing, files, ssFile) IN
         runs' = [runs EXCEPT ![p] =
                     IF EarlyReturn(dirExists, new_files) THEN RunIdle
                     ELSE [pc |-> "detected", new_files |-> new_files]]
    /\ UNCHANGED <<ingested, recorded>>
    /\ UNCHANGED syncVars
    /\ UNCHANGED notRace

\* lines 126-150: process p reads the catalog
RunLoadCatalog(p) ==
    /\ runs[p].pc = "detected"
    /\ runs' = [runs EXCEPT ![p] =
                   [pc |-> "loaded", new_files |-> runs[p].new_files,
                    existing_tracks |-> IF should_update_tracks_json(cfg)
                                        THEN ReadCatalog(catFile) ELSE <<>>]]
    /\ UNCHANGED <<started, overlapped, ingested, recorded>>
    /\ UNCHANGED syncVars
    /\ UNCHANGED notRace

\* lines 152-196: process p reads the sync state and processes its files
RunProcess(p) ==
    /\ runs[p].pc = "loaded"
    /\ LET run == ProcessFiles(runs[p].new_files,
                      [existing_ids |-> ExistingIds(runs[p].existing_tracks),
                       existing_tracks |-> runs[p].existing_tracks,
                       state |-> load_sync_state(ssFile),
                       results |-> NewResults],
                      should_update_tracks_json(cfg), clock + 1)
       IN runs' = [runs EXCEPT ![p] =
                     [pc |-> "processed", new_files |-> runs[p].new_files,
                      existing_tracks |-> run.existing_tracks, state |-> run.state]]
    /\ UNCHANGED <<started, overlapped, ingested, recorded>>
    /\ UNCHANGED syncVars
    /\ UNCHANGED notRace

\* lines 198-209: process p writes the catalog
RunWriteCatalog(p) ==
    /\ runs[p].pc = "processed"
    /\ catFile' = IF should_update_tracks_json(cfg)
                  THEN [status |-> "ok", tracks |-> runs[p].existing_tracks]
                  ELSE catFile
    /\ runs' = [runs EXCEPT ![p] = [pc |-> "written", new_files |-> runs[p].new_files,
                                    state |-> runs[p].state]]
    /\ UNCHANGED <<started, overlapped, ingested, recorded>>
    /\ UNCHANGED <<dirExists, files, cfg, ssFile, clock, edits, sinceRun, clearedSince,
                   lastRun>>
    /\ UNCHANGED notRace

\* lines 216-220: process p writes the sync state and returns
RunWriteState(p) ==
    /\ runs[p].pc = "written"
    /\ ssFile' = [status |-> "ok", synced_files |-> runs[p].state.synced_files,
                  last_sync |-> clock + 1]
    /\ clock' = clock + 1
    /\ runs' = [runs EXCEPT ![p] = RunIdle]
    /\ ingested' = ingested \cup
          UNION { IdsOf(LoadedTracks[runs[p].new_files[i].content])
                  : i \in 1..Len(runs[p].new_files) }
    /\ recorded' = recorded \cup
          { runs[p].new_files[i].filename : i \in 1..Len(runs[p].new_files) }
    /\ UNCHANGED <<started, overlapped>>
    /\ UNCHANGED <<dirExists, files, cfg, catFile, edits, sinceRun, clearedSince, lastRun>>
    /\ UNCHANGED notRace

\* a new CSV export is dropped into the directory
DropFile ==
    /\ \E f \in { g \in Filenames : IsCsv(g) /\ files[g] = 0 }, c \in 1..NumContents :
         files' = [files EXCEPT ![f] = c]
    /\ UNCHANGED <<dirExists, cfg, ssFile, catFile, clock, edits, sinceRun, clearedSince,
                   lastRun>>
    /\ UNCHANGED raceVars
    /\ UNCHANGED notRace

NextRace ==
    \/ \E p \in Procs : RunDetect(p)
    \/ \E p \in Procs : RunLoadCatalog(p)
    \/ \E p \in Procs : RunProcess(p)
    \/ \E p \in Procs : RunWriteCatalog(p)
    \/ \E p \in Procs : RunWriteState(p)
    \/ DropFile

(***************************************************************************)
(*                          SPECIFICATIONS                                 *)
(***************************************************************************)

InitSpecAuth ==
    InitAuth /\ tokenStore = NoToken /\ ParkedClient /\ InitPag /\ ParkedSync /\ ParkedRace

SpecAuth == InitSpecAuth /\ [][NextAuth]_vars

\* the attempt with its wait loop running on: time.sleep(0.1) returns and
\* the loop condition is evaluated again
SpecAuthLive == SpecAuth /\ WF_vars(AuthWaitPoll \/ AuthWaitTimeout)

InitSpecClient == InitClient /\ InitAuth /\ InitPag /\ ParkedSync /\ ParkedRace

InitSpecPaginate ==
    InitPag /\ InitAuth /\ tokenStore = NoToken /\ ParkedClient /\ ParkedSync /\ ParkedRace

InitSpecSync ==
    InitSync /\ InitAuth /\ tokenStore = NoToken /\ ParkedClient /\ InitPag /\ ParkedRace

InitSpecRace == InitRace /\ InitAuth /\ tokenStore = NoToken /\ ParkedClient /\ InitPag

SpecRace == InitSpecRace /\ [][NextRace]_vars

SpecSync == InitSpecSync /\ [][NextSync]_vars

SpecPaginate == InitSpecPaginate /\ [][NextPag]_vars

SpecClient == InitSpecClient /\ [][NextClient]_vars

\* request_json with its loop running on: an iteration that can be made is
\* made (urlopen has a timeout and every sleep is finite)
SpecClientLive == SpecClient /\ WF_vars(ReqAttempt \/ ReqTokenFails)

(***************************************************************************)
(*                               CLAIMS                                    *)
(***************************************************************************)

\* C1: when the redirect URL carries a state value that differs from the csrf
\* state of the attempt, the attempt ends without any call of
\* exchange_code_for_token.
C1_MismatchAborts ==
    (aPc = "done" /\ pasted # NoUrl /\ CarriedState(pasted) # ""
        /\ CarriedState(pasted) # csrf)
    => (exchangeCalls = 0 /\ outcome \in {"mismatch", "error", "nocode"})

\* C1 witness: an attempt that ended on the state check, with a code present
C1_Witness ==
    /\ aPc = "done"
    /\ outcome = "mismatch"
    /\ pasted.kind = "url"
    /\ Lookup(pasted.query, "code") = GoodCode
    /\ CarriedState(pasted) # csrf

\* C2: every call of exchange_code_for_token is preceded, in the same attempt,
\* by a received state that was compared equal to the generated state.
C2_ExchangeOnlyAfterStateMatch ==
    exchangeCalls > 0 => compared

\* the statuses of the responses of the call, in order
RespStatuses(log) ==
    LET r == SelectSeq(log, LAMBDA ev : ev.e = "resp") IN [i \in 1..Len(r) |-> r[i].v]

RECURSIVE Trailing(_, _)
\* the length of the run of value x that ends sequence q
Trailing(q, x) ==
    IF q = <<>> \/ q[Len(q)] # x THEN 0
    ELSE 1 + Trailing(SubSeq(q, 1, Len(q) - 1), x)

CountEv(log, e) == Len(SelectSeq(log, LAMBDA ev : ev.e = e))

\* C3 (as amended): once 429 responses have been received on
\* max(spotify_max_retries, 0) + 1 consecutive attempts of one request_json
\* call, the call has failed with the error for status 429 (and, having
\* failed, sends no further request).
C3_FailsAfterMaxRetriesPlusOne ==
    (cPc # "idle" /\ Trailing(RespStatuses(cLog), 429) >= Max(max_retries, 0) + 1)
    => (cPc = "raised" /\ cError = Err("http", 429))

\* C3 witness: a call with retries configured that met only 429 responses
\* and failed on the last of them
C3_Witness ==
    /\ cPc = "raised"
    /\ cError = Err("http", 429)
    /\ retry_429
    /\ max_retries >= 1
    /\ Trailing(RespStatuses(cLog), 429) = max_retries + 1
    /\ CountEv(cLog, "send") = max_retries + 1

\* C3 as stated: spotify_max_retries consecutive 429 responses already make
\* the call fail with the 429 error.
C3_Original ==
    (cPc # "idle" /\ retry_429 /\ max_retries >= 1
        /\ Trailing(RespStatuses(cLog), 429) >= max_retries)
    => (cPc = "raised" /\ cError = Err("http", 429))

\* C4: within one request_json call the 401 responses trigger at most one
\* token refresh, and a 401 response received after that refresh ends the
\* call with the 401 error: nothing (no refresh, no sleep, no resend)
\* follows it.
C4_OneRefreshOn401 ==
    /\ CountEv(cLog, "refresh401") <= 1
    /\ \A i \in 1..Len(cLog) :
         (cLog[i].e = "refresh401" /\ cLog[i].v = 1) =>
            /\ i < Len(cLog) => cLog[i + 1].e \in {"send", "refreshGT"}
            /\ \A j \in (i + 1)..Len(cLog) :
                 (cLog[j] = Event("resp", 401)) =>
                    (j = Len(cLog) /\ cPc = "raised" /\ cError = Err("http", 401))

\* C4 witness: a 401, the refresh, the resend, and a second 401 that was fatal
\* although the retry budget was not used up
C4_Witness ==
    /\ cPc = "raised"
    /\ cError = Err("http", 401)
    /\ CountEv(cLog, "refresh401") = 1
    /\ attempt <= max_retries
    /\ \E i \in 1..Len(cLog) : cLog[i] = Event("refresh401", 1)

CeilDiv(a, b) == (a + b - 1) \div b

\* C5: on an endpoint that holds N items, serves full pages of size L and
\* reports total = N, _paginate started at offset 0 issues exactly
\* ceil(N / L) page requests (one when N = 0) and returns the N items in
\* provider order, each once.
C5_FullPagination ==
    (pPc = "done" /\ pFull /\ pStart = 0 /\ pBad = {})
    => /\ Len(pReqs) = IF pN = 0 THEN 1 ELSE CeilDiv(pN, pLimit)
       /\ pOut = [i \in 1..pN |-> i]

\* C5 witness: a finished pagination of several full pages, the last one
\* shorter than the limit
C5_Witness ==
    /\ pPc = "done" /\ pFull /\ pStart = 0 /\ pBad = {}
    /\ pN = 5 /\ pLimit = 2
    /\ Len(pReqs) = 3
    /\ Len(pOut) = 5

\* how often identity key id occurs in a list of tracks
Occurrences(tracks, id) == Cardinality({ i \in 1..Len(tracks) : track_id(tracks[i]) = id })

IsPrefix(p, q) == Len(p) <= Len(q) /\ SubSeq(q, 1, Len(p)) = p

\* the last run returned a result and nothing but the configuration changed since
JustRan == lastRun.ran /\ lastRun.result.returned /\ sinceRun = "clean"

CsvPresent == { f \in Present(files) : IsCsv(f) }

DetectedNames(d) == { d[i].filename : i \in 1..Len(d) }

\* the identity keys of the tracks of the files a run detected
DetectedIds(d) == UNION { IdsOf(LoadedTracks[d[i].content]) : i \in 1..Len(d) }

\* what detect_new_files reports now, under every listing order
DetectedNow == { detect_new_files(dirExists, l, files, ssFile) : l \in Listings(Present(files)) }

\* C6: a run of sync_exportify_folder that follows a completed run with no
\* change of the CSV files or of the sync state in between reports
\* new_tracks = 0 and changes neither the catalog nor the per-file entries of
\* SyncState.
C6_SecondRunIdempotent ==
    (JustRan /\ lastRun.quiet)
    => /\ lastRun.result.new_tracks = 0
       /\ catFile = lastRun.preCat
       /\ ssFile.synced_files = lastRun.preSs.synced_files

\* C6 witness: such a second run on a directory whose CSV file the first run
\* ingested and recorded
C6_Witness ==
    /\ JustRan /\ lastRun.quiet
    /\ \E f \in CsvPresent :
         /\ ssFile.synced_files[f] # NoEntry
         /\ LoadedTracks[files[f]] # <<>>

\* C7: a CSV file that is recorded in SyncState and whose content hash has
\* changed is reported by detect_new_files with is_new = false; the run that
\* follows counts every such file in updated_files and records its new hash,
\* and no identity key that the catalog already held occurs more often in the
\* catalog after the run: when the catalog was read and written, the old
\* catalog is a prefix of the new one, the appended tracks all have keys the
\* old catalog lacked, and the keys of the re-ingested files are all in it.
C7_ModifiedFileReingested ==
    /\ \A f \in CsvPresent :
         (dirExists /\ ssFile.synced_files[f] # NoEntry
            /\ ssFile.synced_files[f].hash # get_file_hash(files[f]))
         => \A d \in DetectedNow : \E i \in 1..Len(d) :
                /\ d[i].filename = f
                /\ d[i].is_new = FALSE
                /\ d[i].hash = get_file_hash(files[f])
    /\ JustRan =>
         LET d == lastRun.detected
             old == lastRun.preCat.tracks
             new == catFile.tracks
         IN /\ lastRun.result.updated_files = Cardinality({ i \in 1..Len(d) : ~d[i].is_new })
            /\ \A i \in 1..Len(d) :
                 ssFile.synced_files[d[i].filename] = [hash |-> d[i].hash, synced_at |-> clock]
            /\ \A id \in IdsOf(old) : Occurrences(new, id) <= Occurrences(old, id)
            /\ (lastRun.readOk /\ lastRun.result.tracks_file_updated) =>
                 /\ IsPrefix(old, new)
                 /\ \A i \in (Len(old) + 1)..Len(new) : track_id(new[i]) \notin IdsOf(old)
                 /\ DetectedIds(d) \subseteq IdsOf(new)

\* C7 witness: a run re-ingested a modified file that holds a track already
\* in the catalog and a track that is new
C7_Witness ==
    /\ JustRan
    /\ lastRun.result.updated_files = 1
    /\ lastRun.result.new_tracks >= 1
    /\ lastRun.result.tracks_file_updated
    /\ \E i \in 1..Len(lastRun.detected) :
         /\ ~lastRun.detected[i].is_new
         /\ IdsOf(LoadedTracks[lastRun.detected[i].content])
               \cap IdsOf(lastRun.preCat.tracks) # {}

\* what C8 says of a run that follows clear_sync_state: every CSV file of the
\* directory is re-ingested as new, new_tracks counts exactly the identity
\* keys the catalog did not hold (0 when it held them all), and nothing but
\* tracks with such keys is appended to the catalog
DedupsAgainstCatalog ==
    LET d == lastRun.detected
        old == lastRun.preCat.tracks
        new == catFile.tracks
    IN /\ DetectedNames(d) = CsvPresent
       /\ \A i \in 1..Len(d) : d[i].is_new
       /\ lastRun.result.new_tracks = Cardinality(DetectedIds(d) \ IdsOf(old))
       /\ \A id \in IdsOf(old) : Occurrences(new, id) <= Occurrences(old, id)
       /\ lastRun.result.tracks_file_updated =>
            /\ IsPrefix(old, new)
            /\ Len(new) = Len(old) + lastRun.result.new_tracks

\* C8 (as amended): when tracks.json updating is enabled
\* (sync_write_tracks_json set and tracks_file ending in .json) and the
\* catalog file can be read, the run that follows clear_sync_state re-ingests
\* every CSV file of the directory, reports new_tracks = 0 for tracks already
\* present in the catalog and does not append them again.
C8_ClearThenSyncDedups ==
    (JustRan /\ lastRun.afterClear /\ lastRun.update /\ lastRun.readOk)
    => DedupsAgainstCatalog

\* C8 witness: a run, a clear, and a second run in which every track of the
\* re-ingested files was already in the catalog
C8_Witness ==
    /\ JustRan /\ lastRun.afterClear /\ lastRun.update /\ lastRun.readOk
    /\ clock >= 2
    /\ lastRun.preCat.tracks # <<>>
    /\ DetectedIds(lastRun.detected) # {}
    /\ DetectedIds(lastRun.detected) \subseteq IdsOf(lastRun.preCat.tracks)
    /\ lastRun.result.new_tracks = 0
    /\ lastRun.result.tracks_file_updated

\* C8 as stated: the same for every configuration in which sync runs
C8_Original ==
    (JustRan /\ lastRun.afterClear) => DedupsAgainstCatalog

\* C9: a changed file whose reading or parsing failed in a run is not
\* recorded as synced by that run and is detected as changed again by the
\* next detect_new_files.
C9_FailedFileNotRecorded ==
    JustRan =>
        \A i \in 1..Len(lastRun.detected) :
            LET fi == lastRun.detected[i] IN
            Contents[fi.content].bad =>
                /\ ssFile.synced_files[fi.filename] = lastRun.preSs.synced_files[fi.filename]
                /\ \A d \in DetectedNow : fi.filename \in DetectedNames(d)

\* C10: after a sync run with tracks.json updating enabled, for every
\* filename that SyncState records as synced with hash h, the identity key of
\* every track of the content with hash h is in the persisted catalog.
C10_SyncedTracksInCatalog ==
    (JustRan /\ lastRun.update) =>
        \A f \in Filenames :
            ssFile.synced_files[f] # NoEntry =>
                \A c \in 1..NumContents :
                    get_file_hash(c) = ssFile.synced_files[f].hash
                    => IdsOf(LoadedTracks[c]) \subseteq IdsOf(catFile.tracks)

\* an entry of the errors list that reports the failure of one file (the
\* other entries report the directory and the tracks.json write)
IsFileError(err) == err \notin {"Directory not found", "Failed to save tracks"}

\* C11: when the processing of a changed file fails in a run, every other
\* changed file of the run is still processed (its hash recorded, its tracks
\* counted or already known) and the errors list of the result has an entry
\* for the failed file.
C11_FailureIsolatedAndReported ==
    JustRan =>
        \A i \in 1..Len(lastRun.detected) :
            Contents[lastRun.detected[i].content].bad =>
                /\ \A j \in 1..Len(lastRun.detected) :
                       LET other == lastRun.detected[j] IN
                       ~Contents[other.content].bad =>
                           ssFile.synced_files[other.filename].hash = other.hash
                /\ \E k \in 1..Len(lastRun.result.errors) :
                       IsFileError(lastRun.result.errors[k])

\* C12: the catalog file as it was before a sync run is a prefix of the
\* catalog file as it is after the run.
C12_CatalogAppendOnly ==
    lastRun.ran => IsPrefix(lastRun.preCat.tracks, catFile.tracks)

\* the identity key of a catalog entry: casefolded artist and casefolded title
IdentityKey(t) == <<casefold(t.artist), casefold(t.track)>>

\* C13: no two entries of the catalog file share an identity key, after any
\* sequence of sync runs, file changes and clear_sync_state calls.
C13_CatalogKeysDistinct ==
    \A i, j \in 1..Len(catFile.tracks) :
        IdentityKey(catFile.tracks[i]) = IdentityKey(catFile.tracks[j]) => i = j

\* C13 witness: a run that started without a catalog file, ingested a file
\* holding the same key twice (in different case) and wrote a catalog with
\* more than one entry
C13_Witness ==
    /\ JustRan
    /\ lastRun.preCat.status = "missing"
    /\ lastRun.result.tracks_file_updated
    /\ Len(catFile.tracks) >= 2
    /\ \E i \in 1..Len(lastRun.detected) :
         Len(LoadedTracks[lastRun.detected[i].content])
            > Cardinality(IdsOf(LoadedTracks[lastRun.detected[i].content]))

\* C14: when an authentication attempt has ended, the loopback listener it
\* started is no longer serving.
C14_ListenerDownAtExit ==
    aPc = "done" => listener # "serving"

\* C15: the loopback listener handles at most one request in its lifetime.
C15_ListenerSingleUse ==
    handled <= 1

\* C16: an attempt whose redirect URL has an error parameter ends as an
\* authentication error: exchange_code_for_token is not called and the
\* attempt saves no token, whatever code and state the URL also has.
C16_ErrorParamAborts ==
    (aPc = "done" /\ pasted # NoUrl /\ pasted.kind = "url"
        /\ Lookup(pasted.query, "error") # "")
    => /\ exchangeCalls = 0
       /\ outcome = "error"
       /\ (tokenStore = NoToken \/ tokenStore.access # attemptNo)

\* C16 witness: an attempt ended by an error parameter although the URL had
\* the good code and the state of the flow
C16_Witness ==
    /\ aPc = "done"
    /\ outcome = "error"
    /\ pasted.kind = "url"
    /\ Lookup(pasted.query, "error") # ""
    /\ Lookup(pasted.query, "code") = GoodCode
    /\ Lookup(pasted.query, "state") = csrf

\* C17: exchange_code_for_token is called at most once in an attempt, and an
\* attempt whose exchange failed has ended.
C17_ExchangeAtMostOnce ==
    /\ exchangeCalls <= 1
    /\ outcome = "exchange_failed" => aPc = "done"

\* C17 witness: an attempt ended by a failed exchange
C17_Witness ==
    /\ aPc = "done"
    /\ outcome = "exchange_failed"
    /\ exchangeCalls = 1

\* what C18 says of get_token, on the cached token and the stored record of
\* the state and for every refresh outcome: the cached (or loaded) token is
\* returned without a refresh iff it is not expired; an expired token with a
\* refresh token and auto-refresh enabled is refreshed once and the refreshed
\* token returned; with no token, no refresh token or auto-refresh disabled
\* the call fails without a refresh.
GetTokenContract ==
    LET t == IF clientToken = NoToken THEN tokenStore ELSE clientToken IN
    \A ref \in RefreshOutcomes(t) :
        LET g == get_token(clientToken, tokenStore, ref) IN
        /\ (t # NoToken /\ ~is_expired(t)) <=> (g.ok /\ ~g.tried /\ g.token = t)
        /\ (t # NoToken /\ is_expired(t) /\ t.hasRefresh /\ auto_refresh)
              => (g.tried /\ (g.ok <=> ref # NoToken) /\ (g.ok => g.token = ref))
        /\ (t = NoToken \/ (is_expired(t) /\ (~t.hasRefresh \/ ~auto_refresh)))
              => (~g.ok /\ ~g.tried)

\* C18: get_token keeps to its contract; a request_json call in which
\* get_token failed has failed at once with that error, without a request in
\* that iteration and without a sleep or a resend after it; and every request
\* sent carries a token that was not expired or was just refreshed when
\* get_token returned it.
C18_TokenBeforeRequest ==
    /\ GetTokenContract
    /\ cError.kind = "token" =>
          /\ cPc = "raised"
          /\ CountEv(cLog, "send") = attempt - 1
          /\ cLog # <<>> => cLog[Len(cLog)].e \notin {"send", "auth", "resp"}
    /\ cError.kind # "token" => CountEv(cLog, "send") = attempt
    /\ \A i \in 1..Len(cLog) : cLog[i].e = "auth" => cLog[i].v \in {0, 1}
    /\ \A i \in 1..Len(cLog) :
          cLog[i].e = "auth" =>
             (cLog[i].v = 1 <=> (i > 2 /\ cLog[i - 2] = Event("refreshGT", 1)))

\* C18 witness: a call that had sent a request, was about to retry, and
\* failed on get_token (the token had expired and could not be refreshed)
\* with retries left
C18_Witness ==
    /\ cPc = "raised"
    /\ cError.kind = "token"
    /\ attempt >= 2
    /\ attempt <= max_retries
    /\ CountEv(cLog, "send") = attempt - 1

\* the provider's message of a response body, when it has one
ProviderMessage(body) ==
    IF body.kind = "dict" /\ body.error.kind = "dict" THEN body.error.message ELSE ""

\* C19: a 4xx response other than 401 and 429 ends the request_json call at
\* once with the error of that status (it is the last thing the call did: no
\* sleep, no refresh, no resend), whatever the attempt number; and every
\* failure on an HTTP status, a non-retryable one or one met with the retries
\* used up, carries the provider's error.message when the body has one and
\* the raw body otherwise.
C19_ClientErrorFatalWithMessage ==
    /\ \A i \in 1..Len(cLog) :
          (cLog[i].e = "resp" /\ cLog[i].v \in (400..499) \ {401, 429}) =>
             (i = Len(cLog) /\ cPc = "raised" /\ cError = Err("http", cLog[i].v))
    /\ (cPc = "raised" /\ cError.kind = "http") =>
          cFailure.detail = IF ProviderMessage(cFailure.body) # ""
                            THEN ProviderMessage(cFailure.body)
                            ELSE cFailure.body.raw

\* C19 witness: a 404 with a provider message met on a later attempt, with
\* retries left, that ended the call with that message
C19_Witness ==
    /\ cPc = "raised"
    /\ cError = Err("http", 404)
    /\ attempt >= 2
    /\ attempt <= max_retries
    /\ cFailure.body = BodyMessage
    /\ cFailure.detail = "m"

\* C20: every run of sync_exportify_folder returns a result to its caller:
\* no run raises, whatever fails in it.
C20_SyncNeverRaises ==
    lastRun.ran => lastRun.result.returned

\* C21: clear_sync_state leaves a sync state with no synced file and no
\* last_sync, leaves the catalog file as it was, and right after it
\* detect_new_files returns every CSV file of the directory, each with
\* is_new = true, whatever hashes were recorded before.
C21_ClearForcesFullDetection ==
    [][ClearSyncState =>
          /\ \A f \in Filenames : ssFile'.synced_files[f] = NoEntry
          /\ ssFile'.last_sync = 0
          /\ catFile' = catFile
          /\ \A l \in Listings(Present(files')) :
                LET d == detect_new_files(dirExists', l, files', ssFile') IN
                /\ dirExists' => DetectedNames(d) = { f \in Present(files') : IsCsv(f) }
                /\ Len(d) = Cardinality(DetectedNames(d))
                /\ \A i \in 1..Len(d) : d[i].is_new]_vars

\* C21 witness: a clear after a run that recorded the hash of a CSV file
\* which is still in the directory with the same content
C21_Witness ==
    /\ clearedSince
    /\ dirExists
    /\ lastRun.ran
    /\ lastRun.result.returned
    /\ \E i \in 1..Len(lastRun.detected) :
          LET fi == lastRun.detected[i] IN
          /\ files[fi.filename] = fi.content
          /\ ssFile.synced_files[fi.filename] = NoEntry

RetryAfterSeconds(header) ==
    CASE header = "3" -> 3
      [] header = "0" -> 0
      [] header = "absent" -> 1
      [] OTHER -> 0

\* the wait made on the last 429: at least the Retry-After seconds, and a
\* jitter on top of the delay that is non-negative and bounded by
\* spotify_retry_jitter
WaitHonoursRetryAfter ==
    /\ cSlept.slept >= RetryAfterSeconds(cSlept.header) * TicksPerSecond
    /\ cSlept.slept - cSlept.seconds * TicksPerSecond >= 0
    /\ cSlept.slept - cSlept.seconds * TicksPerSecond <= retry_jitter

\* the positions of the log at which the call slept on a 429
SleepsOn429 ==
    { i \in 2..Len(cLog) : cLog[i].e = "sleep" /\ cLog[i - 1] = Event("resp", 429) }

C24_CallTerminatesWithinBudget ==
    /\ [](/\ CountEv(cLog, "send") <= Max(max_retries, 0) + 1
          /\ attempt <= Max(max_retries, 0) + 1
          /\ max_retries <= 0 => CountEv(cLog, "sleep") + CountEv(cLog, "refresh401") = 0)
    /\ (cPc = "loop") ~> (cPc \in {"returned", "raised"})

\* C24 witness: a call that used its whole budget on retries of three kinds
\* (a 429, a 401 refresh, a network failure or 5xx) and then ended
C24_Witness ==
    /\ cPc \in {"returned", "raised"}
    /\ max_retries = 2
    /\ CountEv(cLog, "send") = 3
    /\ CountEv(cLog, "refresh401") = 1
    /\ CountEv(cLog, "sleep") = 1

\* C25: a request_json call that met a 401 with 401 refresh allowed, a cached
\* token that has a refresh token and auto-refresh enabled has tried a token
\* refresh, whatever retries it had made before: it never fails on a 401
\* without having tried one.
C25_First401Refreshes ==
    (cPc = "raised" /\ cError = Err("http", 401) /\ retry_401_refresh /\ auto_refresh
        /\ clientToken # NoToken /\ clientToken.hasRefresh)
    => CountEv(cLog, "refresh401") >= 1

\* C26: when the token refresh triggered by a 401 fails, the call ends there
\* with the 401 API error, nothing follows the failed refresh, and the
\* cached token is the one the request was sent with.
C26_Failed401RefreshIsFatal ==
    [][(cLog' # cLog /\ cLog' # <<>> /\ cLog'[Len(cLog')] = Event("refresh401", 0)) =>
          /\ cPc' = "raised"
          /\ cError' = Err("http", 401)
          /\ \A i \in 1..Len(cLog') :
                cLog'[i] = Event("refresh401", 0) => i = Len(cLog')
          /\ LET t == IF clientToken = NoToken THEN tokenStore ELSE clientToken IN
             IF cLog'[Len(cLog') - 2] = Event("auth", 0)
             THEN clientToken' = t
             ELSE clientToken' \in RefreshOutcomes(t) \ {NoToken} /\ tokenStore' = clientToken']_vars

\* C26 witness: a call ended by a 401 whose refresh failed, with retries left
C26_Witness ==
    /\ cPc = "raised"
    /\ cError = Err("http", 401)
    /\ cLog # <<>>
    /\ cLog[Len(cLog)] = Event("refresh401", 0)
    /\ attempt <= max_retries

\* the delay the backoff gives on attempt n: the base doubled n - 1 times
RECURSIVE Doubled(_, _)
Doubled(base, n) == IF n <= 1 THEN base ELSE 2 * Doubled(base, n - 1)

\* the delays, in order, of the retries the call made on a 5xx response
Delays5xx ==
    LET idx == { i \in 2..Len(cLog) : cLog[i].e = "sleep" /\ cLog[i - 1].e = "resp"
                                        /\ cLog[i - 1].v >= 500 }
        ord == CHOOSE q \in [1..Cardinality(idx) -> idx] :
                  \A a, b \in 1..Cardinality(idx) : a < b => q[a] < q[b]
    IN [k \in 1..Cardinality(idx) |-> cLog[ord[k]].v]

LastReq == pReqs[Len(pReqs)]

\* C28 (as amended): _paginate requests successive offsets that start at the
\* caller's offset, each strictly greater than the one before; it goes on
\* only while the offset (the caller's offset plus the items received) is
\* below the reported total and the last page held items, and it stops when
\* the offset has reached the total, when a page holds no item or when a
\* page reports no total.
C28_OffsetsAdvanceToTotal ==
    /\ pReqs # <<>> => pReqs[1] = pStart
    /\ \A i \in 1..(Len(pReqs) - 1) : pReqs[i] < pReqs[i + 1]
    /\ (pPc = "loop" /\ pReqs # <<>>) => (LastReq < pOffset /\ pOffset < pN)
    /\ pPc = "done" => (pOffset >= pN \/ pOffset = LastReq)
    /\ pPc \in {"loop", "done"} => pOffset <= Max(pN, pStart)

\* C28 witness: a call that started at a non-zero offset, received pages
\* shorter than the limit and stopped on the total after three requests
C28_Witness ==
    /\ pPc = "done"
    /\ pStart > 0
    /\ Len(pReqs) >= 3
    /\ pOffset = pN
    /\ \E i \in 1..(Len(pReqs) - 1) : pReqs[i + 1] - pReqs[i] < pLimit

\* C28 as stated: the call stops exactly when the number of items it has
\* accumulated reaches the reported total or a page returns no item, for
\* every starting offset.
C28_Original ==
    (pPc = "done" /\ pFull /\ pBad = {})
    => (Len(pOut) >= pN \/ pOffset = LastReq)

\* the items at positions from + 1 .. to of the endpoint that are objects
GoodItems(from, to) ==
    SelectSeq([i \in 1..Max(0, to - from) |-> from + i], LAMBDA x : x \notin pBad)

\* C29: the result of _paginate is, in provider order, every well-formed
\* item of the positions it was served; a malformed item is left out but
\* counts for the offset; and the call goes on to a further page only after
\* a page that held items, so a page whose items field is missing or is no
\* list adds nothing and ends the pagination.
C29_MalformedItemsSkipped ==
    /\ [](/\ pPc = "loop" => pOut = GoodItems(pStart, pOffset)
          /\ pPc = "done" => \E to \in pOffset..Max(pOffset, pN) : pOut = GoodItems(pStart, to))
    /\ [][(pPc = "loop" /\ pPc' = "loop") =>
             /\ pOffset' > pOffset
             /\ Len(pOut') = Len(pOut) + Len(GoodItems(pOffset, pOffset'))]_vars

\* C29 witness: a malformed item on the first page, well-formed items after
\* it on that page and on a later page, all of them returned
C29_Witness ==
    /\ pPc = "done"
    /\ Len(pReqs) >= 2
    /\ pOffset = pN
    /\ \E b \in pBad :
          /\ pStart < b /\ b < pReqs[2]
          /\ \E i \in 1..Len(pOut) : pOut[i] > b /\ pOut[i] <= pReqs[2]
          /\ \E i \in 1..Len(pOut) : pOut[i] > pReqs[2]

\* SyncState.synced_files as detect_new_files reads it: the entries of the
\* state file, none when the file is missing or cannot be parsed
SyncedFilesSeen ==
    IF ssFile.status = "ok" THEN ssFile.synced_files ELSE [f \in Filenames |-> NoEntry]

\* the .csv files of the directory that are absent from synced_files or
\* whose stored hash differs from the hash of their content
ChangedCsvFiles ==
    { f \in Present(files) :
        /\ dirExists
        /\ EndsWith(casefold(f), <<".", "c", "s", "v">>)
        /\ \/ SyncedFilesSeen[f] = NoEntry
           \/ SyncedFilesSeen[f].hash # get_file_hash(files[f]) }

\* C30: detect_new_files returns exactly the changed .csv files, each once,
\* with its current hash and with is_new true iff the filename is absent
\* from synced_files; a file whose hash equals the stored hash is not
\* returned.
C30_DetectsExactlyChangedFiles ==
    \A l \in Listings(Present(files)) :
        LET d == detect_new_files(dirExists, l, files, ssFile) IN
        /\ DetectedNames(d) = ChangedCsvFiles
        /\ Len(d) = Cardinality(ChangedCsvFiles)
        /\ \A i \in 1..Len(d) :
              /\ d[i].is_new <=> SyncedFilesSeen[d[i].filename] = NoEntry
              /\ d[i].hash = get_file_hash(files[d[i].filename])

\* C30 witness: a directory with a synced CSV file that is unchanged, a
\* synced CSV file whose content has changed since, so that one is returned
\* and the other is not
C30_Witness ==
    /\ dirExists
    /\ \E f, g \in Present(files) :
          /\ IsCsv(f) /\ IsCsv(g)
          /\ SyncedFilesSeen[f] # NoEntry
          /\ SyncedFilesSeen[f].hash = get_file_hash(files[f])
          /\ SyncedFilesSeen[g] # NoEntry
          /\ SyncedFilesSeen[g].hash # get_file_hash(files[g])

\* the tracks of the detected files of the last run, as load_exportify_tracks
\* returned them
DetectedTracks(d) ==
    UNION { { LoadedTracks[d[i].content][k] : k \in 1..Len(LoadedTracks[d[i].content]) }
            : i \in 1..Len(d) }

\* the tracks at hand: those of the CSV files of the directory and those of
\* the catalog
TracksAtHand ==
    UNION { { LoadedTracks[files[f]][k] : k \in 1..Len(LoadedTracks[files[f]]) }
            : f \in CsvPresent }
      \cup { catFile.tracks[k] : k \in 1..Len(catFile.tracks) }

\* C31: two tracks have the same dedup key iff their artists are equal
\* case-insensitively and their titles are equal case-insensitively, also
\* for strings that hold the separator '|'; hence, in a run that read and
\* wrote the catalog, every track of a detected file has an entry with its
\* (artist, title) pair in the catalog.
C31_KeyIsThePair ==
    /\ \A t1, t2 \in TracksAtHand :
         track_id(t1) = track_id(t2) <=> IdentityKey(t1) = IdentityKey(t2)
    /\ (JustRan /\ lastRun.update /\ lastRun.readOk /\ lastRun.result.tracks_file_updated)
       => \A t \in DetectedTracks(lastRun.detected) :
             \E k \in 1..Len(catFile.tracks) : IdentityKey(catFile.tracks[k]) = IdentityKey(t)

\* the files a run processed without a failure: the detected files whose
\* content could be read and parsed
ProcessedOk(d) == { d[i].filename : i \in { k \in 1..Len(d) : ~Contents[d[k].content].bad } }

\* C32: a step that is not clear_sync_state removes no filename from
\* synced_files, and a sync run changes only the entries of the files it
\* processed successfully.
C32_StateAppendUpdateOnly ==
    [][/\ ~clearedSince' =>
            \A f \in Filenames :
                ssFile.synced_files[f] # NoEntry => ssFile'.synced_files[f] # NoEntry
       /\ clock' # clock =>
            \A f \in Filenames :
                ssFile'.synced_files[f] # ssFile.synced_files[f]
                => f \in ProcessedOk(lastRun'.detected)]_vars

\* the same restricted to the runs that return a result and meet no file
\* that cannot be parsed
StateKeptWhenNothingFails ==
    [][(/\ clock' # clock
        /\ lastRun'.result.returned
        /\ ProcessedOk(lastRun'.detected) = DetectedNames(lastRun'.detected))
       => \A f \in Filenames :
             /\ ssFile.synced_files[f] # NoEntry => ssFile'.synced_files[f] # NoEntry
             /\ ssFile'.synced_files[f] # ssFile.synced_files[f]
                => f \in ProcessedOk(lastRun'.detected)]_vars

\* C33: a sync run that finds the directory missing or no changed file
\* leaves the state file (last_sync included) and the catalog file as they
\* were and returns zero counts with tracks_file_updated = false; last_sync
\* changes only in runs that detected at least one changed file.
C33_QuietRunChangesNothing ==
    [][clock' # clock =>
          LET r == lastRun'.result IN
          /\ (~dirExists \/ <<>> \in DetectedNow) =>
                /\ lastRun'.detected = <<>>
                /\ ssFile' = ssFile
                /\ catFile' = catFile
                /\ r.returned
                /\ r.new_files = 0 /\ r.updated_files = 0 /\ r.new_tracks = 0
                /\ ~r.tracks_file_updated
          /\ ssFile'.last_sync # ssFile.last_sync =>
                dirExists /\ lastRun'.detected # <<>>]_vars

\* C33 witness: a run on a directory whose CSV files are all recorded with
\* their current hash, after an earlier run that set last_sync and wrote the
\* catalog
C33_Witness ==
    /\ JustRan
    /\ dirExists
    /\ lastRun.detected = <<>>
    /\ CsvPresent # {}
    /\ lastRun.update
    /\ catFile.tracks # <<>>
    /\ ssFile.last_sync > 0
    /\ ssFile.last_sync < clock

\* the entries of the errors list that report the failure of one file
FileErrors(errors) == { k \in 1..Len(errors) : IsFileError(errors[k]) }

\* the tracks the last run loaded from the catalog file (lines 130-145)
LoadedCatalog ==
    IF lastRun.update /\ lastRun.preCat.status = "ok" /\ lastRun.readOk
    THEN lastRun.preCat.tracks ELSE <<>>

\* C34: in the result of a sync run, new_files + updated_files + the number
\* of per-file error entries is the number of files detect_new_files
\* reported; when tracks.json updating is enabled and the catalog was
\* written, the written catalog is the list the run loaded followed by
\* new_tracks appended entries.
C34_CountsConsistent ==
    JustRan =>
        LET r == lastRun.result IN
        /\ r.new_files + r.updated_files + Cardinality(FileErrors(r.errors))
              = Len(lastRun.detected)
        /\ (lastRun.update /\ r.tracks_file_updated) =>
              /\ IsPrefix(LoadedCatalog, catFile.tracks)
              /\ Len(catFile.tracks) = Len(LoadedCatalog) + r.new_tracks

\* C34 witness: a run that re-ingested a modified file, found tracks the
\* catalog already held and appended other tracks to it
C34_Witness ==
    /\ JustRan
    /\ lastRun.update
    /\ lastRun.result.tracks_file_updated
    /\ lastRun.result.updated_files = 1
    /\ LoadedCatalog # <<>>
    /\ lastRun.result.new_tracks >= 1
    /\ Cardinality(DetectedTracks(lastRun.detected)) > lastRun.result.new_tracks

\* no run is under way
AllIdle == \A p \in Procs : runs[p].pc = "idle"

\* a track that a finished run ingested is not in the catalog, or a file
\* that a finished run recorded has no entry in the sync state
LostUpdate ==
    \/ \E id \in ingested : id \notin IdsOf(catFile.tracks)
    \/ \E f \in recorded : ssFile.synced_files[f] = NoEntry

LostStateEntry ==
    /\ AllIdle
    /\ overlapped
    /\ \E f \in recorded : ssFile.synced_files[f] = NoEntry

\* C36: with the listener running, the wait for the redirect ends: the
\* flow waits no longer than the timeout, and when the wait ends without a
\* redirect URL (timeout or listener failure) the flow goes on to the manual
\* paste prompt, the attempt not ended.
C36_WaitBoundedThenPrompt ==
    /\ [](aPc = "wait" => elapsed <= WaitTicks)
    /\ [][(aPc = "wait" /\ aPc' # "wait") =>
             /\ aPc' \in {"prompt", "parse"}
             /\ aPc' = "prompt" <=> pasted' = NoUrl
             /\ outcome' = "none"]_vars
    /\ (aPc = "wait") ~> (aPc \in {"prompt", "parse"})

\* C36 witness: the timeout has expired on a listener that is still serving
\* and has captured nothing, and the flow is at the prompt
C36_Witness ==
    /\ aPc = "prompt"
    /\ listener = "serving"
    /\ elapsed = WaitTicks
    /\ full_url = NoUrl
    /\ ~cbError
    /\ outcome = "none"

\* C37: once the listener has handled its request and has shut down, with
\* or without a captured redirect, the next step of the waiting flow leaves
\* the wait loop (for the parsing or for the manual paste prompt).
C37_WaitEndsWhenListenerStops ==
    [][(aPc = "wait" /\ listener = "stopped" /\ handled >= 1)
       => aPc' \in {"parse", "prompt"}]_vars

\* the pasted text with which an attempt must not reach the exchange: no
\* text, a provider error, no code, or a state other than the attempt's
MustNotExchange ==
    \/ pasted.kind \in {"none", "empty"}
    \/ /\ pasted.kind = "url"
       /\ \/ Lookup(pasted.query, "error") # ""
          \/ Lookup(pasted.query, "code") = ""
          \/ CarriedState(pasted) \notin {"", csrf}

\* C38: the token store changes only in the step of an attempt that
\* exchanges the code successfully; an attempt that ends on an empty paste, a
\* provider error, a missing code, a state mismatch or a failed exchange
\* leaves it as it was.
C38_StoreChangesOnlyOnSuccess ==
    [][/\ tokenStore' # tokenStore =>
            /\ aPc = "parse" /\ ~MustNotExchange
            /\ outcome' = "success"
            /\ exchangeCalls' = exchangeCalls + 1
       /\ (aPc' = "done" /\ outcome' # "success") => tokenStore' = tokenStore]_vars

\* C38 witness: after an attempt that stored a token, a second attempt has
\* ended on a state mismatch and the token of the first is still stored
C38_Witness ==
    /\ aPc = "done"
    /\ attemptNo = 2
    /\ outcome = "mismatch"
    /\ tokenStore # NoToken
    /\ tokenStore.access = 1

\* a second witness: the second attempt has ended on a failed exchange
StoreKeptOnFailedExchange ==
    /\ aPc = "done"
    /\ attemptNo = 2
    /\ outcome = "exchange_failed"
    /\ tokenStore # NoToken
    /\ tokenStore.access = 1

\* the rows of a file that have an artist and a track name once the
\* surrounding blanks are removed, by index
RowsWithBoth(rows) ==
    { i \in 1..Len(rows) : strip(rows[i].artist) # <<>> /\ strip(rows[i].track) # <<>> }

\* the k-th index of a set of indices, in increasing order
NthIndex(idx, k) == CHOOSE i \in idx : Cardinality({ j \in idx : j < i }) = k - 1

\* tracks holds one descriptor for each row of rows that has both fields, in
\* the order of the rows
OnePerRowWithBoth(tracks, rows) ==
    LET idx == RowsWithBoth(rows) IN
    /\ Len(tracks) = Cardinality(idx)
    /\ \A k \in 1..Len(tracks) :
         LET row == rows[NthIndex(idx, k)] IN
         /\ tracks[k].track = strip(row.track)
         /\ tracks[k].artist = normalize_artists(row.artist)
         /\ tracks[k].album = strip(row.album)

\* C39: load_exportify_tracks returns, in file order, one track descriptor
\* for each row of the file that has an artist and a track name, and skips
\* the other rows; for a missing file it returns the empty list.
C39_OneTrackPerCompleteRow ==
    \A f \in Filenames :
        LET c == files[f] IN
        IF c = 0 THEN load_exportify_tracks(c) = <<>>
        ELSE OnePerRowWithBoth(load_exportify_tracks(c), Contents[c].rows)

\* the same for the files that can be read and parsed to their end, which
\* holds
ReadableFileYieldsCompleteRows ==
    \A f \in Filenames :
        LET c == files[f] IN
        IF c = 0 THEN load_exportify_tracks(c) = <<>>
        ELSE ~Contents[c].bad
             => OnePerRowWithBoth(load_exportify_tracks(c), Contents[c].rows)

\* a run has read a file with rows that are kept, in the file's order, and
\* rows that are skipped
ReadFileWithSkippedRows ==
    /\ JustRan
    /\ \E i \in 1..Len(lastRun.detected) :
         LET c == lastRun.detected[i].content IN
         /\ files[lastRun.detected[i].filename] = c
         /\ ~Contents[c].bad
         /\ Len(load_exportify_tracks(c)) >= 2
         /\ Len(load_exportify_tracks(c)) < Len(Contents[c].rows)

=============================================================================
